---- MODULE Spec2Model ----
(***************************************************************************)
(* Model of the auto-translate-web-ui backend: the upload handler, the     *)
(* Celery task process_video_task with the pipeline process_video, the     *)
(* subtitle edit routes, and the durable store (tables videos, subtitles). *)
(*                                                                         *)
(* Strings are sequences of one-character strings so that "\n".join and    *)
(* str.strip are computed, not assumed.  Times are whole seconds, except   *)
(* in format_srt_time and generate_srt, which take sixteenths of a second. *)
(* Confidence is in hundredths (0.9 is 90, 1.0 is 100).                    *)
(***************************************************************************)
EXTENDS Integers, Sequences, FiniteSets, TLC

\* ---------------------------------------------------------------- bounds
MaxVideos == 1
MaxSegs == 2
MaxW == 1
MaxOps == 1
MaxTime == 2
MaxTexts == 4
MaxEditVideos == 2
MaxEdits == 2
MaxSrt == 2
MaxRunVideos == 2
MaxAttempts == 2

\* ------------------------------------------------------ program constants
SampleRate == 16000
DefaultContextWindow == 3
BulkConfidence == 90
WhisperConfidence == 100
ManualConfidence == 100

VideoIds == 1..MaxVideos

\* --------------------------------------------------------------- strings
EmptyText == <<>>
Texts == {EmptyText, <<"a">>, <<"b">>}
\* An Optional[...] request field: None is the empty set, a value x is {x}.
None == {}
Some(x) == {x}
TheValue(o) == CHOOSE x \in o : TRUE

\* A character is a string: an ASCII character is the string of that one
\* character, a character outside ASCII is written by its code point, as
\* "U+00E9".  These are the characters str.strip() takes for whitespace:
\* tab, line feed, vertical tab, form feed, carriage return, the separators
\* U+001C..U+001F, the space, and the Unicode spaces and line separators.
WhitespaceChars ==
    {" ", "\t", "\n", "\r", "\f", "", "", "", "", "",
     "U+0085", "U+00A0", "U+1680",
     "U+2000", "U+2001", "U+2002", "U+2003", "U+2004", "U+2005", "U+2006",
     "U+2007", "U+2008", "U+2009", "U+200A",
     "U+2028", "U+2029", "U+202F", "U+205F", "U+3000"}

IsBlankChar(c) == c \in WhitespaceChars

RECURSIVE LStrip(_)
LStrip(s) == IF s = <<>> THEN <<>>
             ELSE IF IsBlankChar(Head(s)) THEN LStrip(Tail(s)) ELSE s

RECURSIVE RStrip(_)
RStrip(s) == IF s = <<>> THEN <<>>
             ELSE IF IsBlankChar(s[Len(s)]) THEN RStrip(SubSeq(s, 1, Len(s) - 1)) ELSE s

Strip(s) == RStrip(LStrip(s))

RECURSIVE Join(_)
Join(parts) == IF parts = <<>> THEN <<>>
               ELSE IF Len(parts) = 1 THEN parts[1]
               ELSE parts[1] \o <<"\n">> \o Join(Tail(parts))

Max(a, b) == IF a > b THEN a ELSE b
Min(a, b) == IF a < b THEN a ELSE b

\* Where a slice bound n falls in a list of length len: a negative bound
\* counts from the end, and both ends are clamped to the list.
SliceBound(n, len) == IF n < 0 THEN Max(0, n + len) ELSE Min(n, len)

\* Python slice xs[lo:hi] (0-based, hi exclusive).
Slice(xs, lo, hi) ==
    IF SliceBound(lo, Len(xs)) >= SliceBound(hi, Len(xs)) THEN <<>>
    ELSE SubSeq(xs, SliceBound(lo, Len(xs)) + 1, SliceBound(hi, Len(xs)))

Reverse(xs) == [i \in 1..Len(xs) |-> xs[Len(xs) + 1 - i]]

\* [t for t in xs if t]: a Python string is falsy exactly when it is empty.
NonEmpty(xs) == SelectSeq(xs, LAMBDA t : t # EmptyText)

\* ----------------------------------------------------- the LLM, as an oracle
\* What the chat completion does on one call: it answers ("ok") or the call
\* raises ("fail").  An answer is the text in upper case.
LLMOutcomes == {"ok", "fail"}

Upper(c) == CASE c = "a" -> "A" [] c = "b" -> "B" [] OTHER -> c

LLMReply(text) == [i \in 1..Len(text) |-> Upper(text[i])]

\* A translate_single_text that answers "" when the completion request fails.
translate_single_text_blank_on_failure(text, context_before, context_after, previous_translated, keyOk, outcome) ==
    IF Strip(text) = EmptyText THEN [raised |-> FALSE, value |-> EmptyText]
    ELSE IF ~keyOk THEN [raised |-> TRUE, value |-> EmptyText]
    ELSE IF outcome = "ok" THEN [raised |-> FALSE, value |-> Strip(LLMReply(text))]
    ELSE [raised |-> FALSE, value |-> EmptyText]

\* translate_single_text.  keyOk: settings.openai_api_key is set, so that
\* get_openai_client() returns a client; without it get_openai_client raises
\* ValueError before the try block is entered.  The three context strings go
\* into the prompt only.
translate_single_text(text, context_before, context_after, previous_translated, keyOk, outcome) ==
    IF Strip(text) = EmptyText THEN [raised |-> FALSE, value |-> EmptyText]
    ELSE IF ~keyOk THEN [raised |-> TRUE, value |-> EmptyText]
    ELSE IF outcome = "ok" THEN [raised |-> FALSE, value |-> Strip(LLMReply(text))]
    ELSE [raised |-> FALSE, value |-> text]

\* ------------------------------------------------ translate_segments (bulk)
\* The three context lists of the call for record i (0-based), before joining.
BulkContext(texts, translated_texts, i, context_window) ==
    LET start_idx == Max(0, i - context_window)
        end_idx == Min(Len(texts), i + 1 + context_window)
        prev_trans_start == Max(0, Len(translated_texts) - context_window)
    IN  [before |-> Slice(texts, start_idx, i),
         after |-> Slice(texts, i + 1, end_idx),
         prev |-> Slice(translated_texts, prev_trans_start, Len(translated_texts))]

\* The strings handed to translate_single_text.
JoinedContext(c) ==
    [context_before |-> Join(c.before),
     context_after |-> Join(c.after),
     previous_translated |-> Join(c.prev)]

\* The for loop of translate_segments from record i on; outcomes[k] is what the
\* LLM does on the call for record k (1-based).  The result is the list
\* translated_texts and the context lists of every call made, with raised set
\* when a call let an exception escape.
RECURSIVE TranslateLoop(_, _, _, _, _, _, _)
TranslateLoop(texts, context_window, keyOk, outcomes, i, translated_texts, calls) ==
    IF i >= Len(texts)
    THEN [raised |-> FALSE, value |-> translated_texts, calls |-> calls]
    ELSE LET c == BulkContext(texts, translated_texts, i, context_window)
             j == JoinedContext(c)
             r == translate_single_text(texts[i + 1], j.context_before, j.context_after,
                                        j.previous_translated, keyOk, outcomes[i + 1])
         IN  IF r.raised
             THEN [raised |-> TRUE, value |-> translated_texts, calls |-> Append(calls, c)]
             ELSE TranslateLoop(texts, context_window, keyOk, outcomes, i + 1,
                                Append(translated_texts, r.value), Append(calls, c))

\* translate_segments: the segments with text_translated and confidence set.
translate_segments(segments, context_window, keyOk, outcomes) ==
    LET texts == [k \in 1..Len(segments) |-> segments[k].text_original]
        r == TranslateLoop(texts, context_window, keyOk, outcomes, 0, <<>>, <<>>)
    IN  IF segments = <<>> THEN [raised |-> FALSE, value |-> segments, calls |-> <<>>]
        ELSE IF r.raised THEN [raised |-> TRUE, value |-> <<>>, calls |-> r.calls]
        ELSE [raised |-> FALSE,
              value |-> [k \in 1..Len(segments) |->
                            [start |-> segments[k].start,
                             end |-> segments[k].end,
                             text_original |-> segments[k].text_original,
                             text_translated |-> r.value[k],
                             confidence |-> BulkConfidence]],
              calls |-> r.calls]

\* ------------------------------------------------------------- the store
\* A subtitle row; a video row is status[v] together with config[v].
SubtitleRow(id, video_id, start_time, end_time, text_original, text_translated, confidence) ==
    [id |-> id, video_id |-> video_id, start_time |-> start_time, end_time |-> end_time,
     text_original |-> text_original, text_translated |-> text_translated,
     confidence |-> confidence]

\* All orders in which the store may return the rows of S under
\* ORDER BY start_time (ascending): ties come in an unspecified order.
OrderedAsc(S) ==
    {f \in [1..Cardinality(S) -> S] :
        /\ \A i, j \in 1..Cardinality(S) : i # j => f[i] # f[j]
        /\ \A i, j \in 1..Cardinality(S) : i < j => f[i].start_time <= f[j].start_time}

OrderedDesc(S) ==
    {f \in [1..Cardinality(S) -> S] :
        /\ \A i, j \in 1..Cardinality(S) : i # j => f[i] # f[j]
        /\ \A i, j \in 1..Cardinality(S) : i < j => f[i].start_time >= f[j].start_time}

\* .limit(n) on a query: SQLite returns the first n rows of the result, and
\* every row when n is negative.
Limit(xs, n) == IF n < 0 THEN xs ELSE SubSeq(xs, 1, Min(n, Len(xs)))

\* The autoincrement key of a new subtitle row (SQLite rowid: largest + 1).
RECURSIVE MaxId(_)
MaxId(S) == IF S = {} THEN 0
            ELSE LET r == CHOOSE x \in S : TRUE IN Max(r.id, MaxId(S \ {r}))

\* ------------------------------------ update_subtitle: point re-translation
\* The possible results of the prev_subs query for subtitle sub.
PrevSubsQuery(rows, sub, context_window) ==
    {Limit(f, context_window) :
        f \in OrderedDesc({s \in rows : s.video_id = sub.video_id
                                        /\ s.start_time < sub.start_time})}

\* The possible results of the next_subs query for subtitle sub.
NextSubsQuery(rows, sub, context_window) ==
    {Limit(f, context_window) :
        f \in OrderedAsc({s \in rows : s.video_id = sub.video_id
                                       /\ s.start_time > sub.start_time})}

\* The three context lists update_subtitle joins, from the two query results.
PointContext(prev_subs, next_subs) ==
    [before |-> NonEmpty([k \in 1..Len(prev_subs) |-> Reverse(prev_subs)[k].text_original]),
     after |-> NonEmpty([k \in 1..Len(next_subs) |-> next_subs[k].text_original]),
     prev |-> NonEmpty([k \in 1..Len(prev_subs) |-> Reverse(prev_subs)[k].text_translated])]

\* ------------------------------------------------------------------ utils
\* format_srt_time and generate_srt take times in sixteenths of a second:
\* every such value is an exact float and so is each product and difference
\* format_srt_time forms from it.
TicksPerSecond == 16

DigitChars == <<"0", "1", "2", "3", "4", "5", "6", "7", "8", "9">>

\* str(n)
RECURSIVE Str(_)
Str(n) == IF n < 0 THEN <<"-">> \o Str(-n)
          ELSE IF n < 10 THEN <<DigitChars[n + 1]>>
          ELSE Str(n \div 10) \o <<DigitChars[(n % 10) + 1]>>

RECURSIVE ZeroFill(_, _)
ZeroFill(s, width) == IF Len(s) >= width THEN s ELSE ZeroFill(<<"0">> \o s, width)

\* f"{n:0{width}d}": the sign counts towards the width.
Format0d(n, width) ==
    IF n < 0 THEN <<"-">> \o ZeroFill(Str(-n), width - 1) ELSE ZeroFill(Str(n), width)

\* int(num / den), num / den an exact float: truncation towards zero.
Trunc(num, den) == IF num >= 0 THEN num \div den ELSE -((-num) \div den)

\* format_srt_time(seconds) for seconds = ticks / TicksPerSecond; // and % of
\* Python round towards minus infinity, as \div and % do.
format_srt_time(ticks) ==
    LET hours == ticks \div (3600 * TicksPerSecond)
        minutes == (ticks % (3600 * TicksPerSecond)) \div (60 * TicksPerSecond)
        secs == (ticks % (60 * TicksPerSecond)) \div TicksPerSecond
        millis == Trunc((ticks - Trunc(ticks, TicksPerSecond) * TicksPerSecond) * 1000,
                        TicksPerSecond)
    IN  Format0d(hours, 2) \o <<":">> \o Format0d(minutes, 2) \o <<":">>
           \o Format0d(secs, 2) \o <<",">> \o Format0d(millis, 3)

\* A text attribute of a Subtitle object is None or a string; a string is
\* truthy when it is not empty.
Truthy(o) == o # None /\ TheValue(o) # EmptyText

\* A generate_srt that prefers the translated text whatever the flag says.
SrtTextAlwaysTranslated(subtitle, use_translated) ==
    IF Truthy(subtitle.text_translated) THEN TheValue(subtitle.text_translated)
    ELSE IF Truthy(subtitle.text_original) THEN TheValue(subtitle.text_original)
    ELSE EmptyText

\* The text line generate_srt chooses for one subtitle.
SrtText(subtitle, use_translated) ==
    IF use_translated /\ Truthy(subtitle.text_translated)
    THEN TheValue(subtitle.text_translated)
    ELSE IF Truthy(subtitle.text_original) THEN TheValue(subtitle.text_original)
    ELSE EmptyText

Arrow == <<" ", "-", "-", ">", " ">>

\* srt_lines after the loop has handled subtitles[index..] (1-based index).
RECURSIVE SrtLines(_, _, _)
SrtLines(subtitles, use_translated, index) ==
    IF index > Len(subtitles) THEN <<>>
    ELSE <<Str(index),
           format_srt_time(subtitles[index].start_time) \o Arrow
              \o format_srt_time(subtitles[index].end_time),
           SrtText(subtitles[index], use_translated),
           EmptyText>>
         \o SrtLines(subtitles, use_translated, index + 1)

generate_srt(subtitles, use_translated) == Join(SrtLines(subtitles, use_translated, 1))

\* ------------------------------------------------------------------ state
VARIABLES
    status,     \* videos.status per video id; "none": no such row
    config,     \* videos.config per video id (context_window)
    rows,       \* the subtitles table: a set of rows
    upPc,       \* where the upload_video handler of each video stands
    queue,      \* task messages {video_id, file_path} waiting in the broker
    tpc,        \* where the running process_video_task of each video stands
    attempts,   \* how many times the task of each video has been started
    vadSegs,    \* process_video: vad_segments
    segs,       \* process_video: subtitles / process_video_task: segments
    exc,        \* the exception in flight in, or raised by, the task
    tempAudio,  \* whether the temp wav of the video's run exists
    keyOk,      \* whether settings.openai_api_key is configured
    opsLeft,    \* subtitle edit requests the clients may still send
    http,       \* the subtitle edit requests, in the order they arrived
    ctxIn,      \* context study: the texts and the window handed in
    ctxBulk,    \* context study: what translate_segments did with them
    ctxPoint,   \* context study: a point re-translation of the saved result
    srtIn,      \* export study: the subtitles and the flag handed in
    srtOut      \* export study: what generate_srt made of them

sysVars == <<status, config, rows, upPc, queue, tpc, attempts, vadSegs, segs, exc,
             tempAudio, opsLeft, http>>

ctxVars == <<ctxIn, ctxBulk, ctxPoint>>

srtVars == <<srtIn, srtOut>>

vars == <<sysVars, keyOk, ctxVars, srtVars>>

taskVars == <<tpc, attempts, vadSegs, segs, exc, tempAudio>>

Times == 0..MaxTime

\* context_window values sent with an upload: upload_video takes any int and
\* stores it as sent; small ones, a negative one and the form default.
ContextWindows == (-1..MaxW) \cup {DefaultContextWindow}

NoCall == [before |-> <<>>, after |-> <<>>, prev |-> <<>>]

NoCtxIn == [texts |-> <<>>, context_window |-> 0]

NoCtxBulk == [done |-> FALSE, outcomes |-> <<>>, raised |-> FALSE, value |-> <<>>,
              calls |-> <<>>]

NoCtxPoint == [done |-> FALSE, index |-> 0, called |-> FALSE, call |-> NoCall]

NoSrtIn == [subtitles |-> <<>>, use_translated |-> TRUE]

NoSrtOut == [done |-> FALSE, text |-> <<>>]

Init ==
    /\ status = [v \in VideoIds |-> "none"]
    /\ config = [v \in VideoIds |-> [context_window |-> DefaultContextWindow]]
    /\ rows = {}
    /\ upPc = [v \in VideoIds |-> "idle"]
    /\ queue = {}
    /\ tpc = [v \in VideoIds |-> "none"]
    /\ attempts = [v \in VideoIds |-> 0]
    /\ vadSegs = [v \in VideoIds |-> <<>>]
    /\ segs = [v \in VideoIds |-> <<>>]
    /\ exc = [v \in VideoIds |-> "none"]
    /\ tempAudio = [v \in VideoIds |-> FALSE]
    /\ keyOk \in BOOLEAN
    /\ opsLeft = MaxOps
    /\ http = <<>>
    /\ ctxIn = NoCtxIn
    /\ ctxBulk = NoCtxBulk
    /\ ctxPoint = NoCtxPoint
    /\ srtIn = NoSrtIn
    /\ srtOut = NoSrtOut

\* ------------------------------------------------------- the write lock
\* Whether no other session than that of request r holds the write lock of
\* the store (SQLite: one writer at a time, from its first write to the end
\* of its transaction).  A session that finds the lock taken waits for it,
\* and when the wait outlasts the busy timeout its statement raises
\* OperationalError (database is locked): a write step taken while the lock
\* is held by another session is that failure.
LockFree(r) == \A k \in DOMAIN http : k # r => http[k].tx = None

\* The same for a session that belongs to no subtitle request.
NoWriter == LockFree(0)

\* ------------------------------------------------------------ upload_video
\* db.add(new_video); db.commit(): the row exists with status UPLOADING.
\* A commit that raises ends the request (500) with no row written.
UploadCreate(v, context_window) ==
    /\ upPc[v] = "idle"
    /\ \A u \in VideoIds : u < v => upPc[u] # "idle"
    /\ IF NoWriter
       THEN /\ status' = [status EXCEPT ![v] = "uploading"]
            /\ config' = [config EXCEPT ![v] = [context_window |-> context_window]]
            /\ upPc' = [upPc EXCEPT ![v] = "created"]
       ELSE /\ upPc' = [upPc EXCEPT ![v] = "failed"]
            /\ UNCHANGED <<status, config>>
    /\ UNCHANGED <<ctxVars, srtVars, rows, queue, taskVars, keyOk, opsLeft, http>>

\* An upload that goes on to the enqueue without committing PROCESSING.
UploadSkipsProcessing(v) ==
    /\ upPc[v] = "created"
    /\ upPc' = [upPc EXCEPT ![v] = "committed"]
    /\ UNCHANGED <<ctxVars, srtVars, status, config, rows, queue, taskVars, keyOk, opsLeft, http>>

\* new_video.status = PROCESSING; db.commit().  A commit that raises ends
\* the request (500): the row stays UPLOADING and nothing is enqueued.
UploadSetProcessing(v) ==
    /\ upPc[v] = "created"
    /\ IF NoWriter
       THEN /\ status' = [status EXCEPT ![v] = "processing"]
            /\ upPc' = [upPc EXCEPT ![v] = "committed"]
       ELSE /\ status' = status
            /\ upPc' = [upPc EXCEPT ![v] = "failed"]
    /\ UNCHANGED <<ctxVars, srtVars, config, rows, queue, taskVars, keyOk, opsLeft, http>>

\* process_video_task.delay(video_id, file_path)
\* The broker takes the message, or it cannot be reached: delay raises and
\* the request ends with that exception, the video row left as committed.
UploadEnqueue(v) ==
    /\ upPc[v] = "committed"
    /\ \E sent \in BOOLEAN :
          IF sent
          THEN /\ queue' = queue \cup {v}
               /\ upPc' = [upPc EXCEPT ![v] = "done"]
          ELSE /\ queue' = queue
               /\ upPc' = [upPc EXCEPT ![v] = "failed"]
    /\ UNCHANGED <<ctxVars, srtVars, status, config, rows, taskVars, keyOk, opsLeft, http>>

\* ------------------------------------------- process_video_task (Celery)
\* A worker takes the message and starts the task body.  The task is declared
\* with max_retries=3, but nothing calls self.retry and no autoretry_for is
\* set: a message is taken once and the task body runs once.
TaskStart(v) ==
    /\ v \in queue
    /\ queue' = queue \ {v}
    /\ tpc' = [tpc EXCEPT ![v] = "check"]
    /\ attempts' = [attempts EXCEPT ![v] = @ + 1]
    /\ exc' = [exc EXCEPT ![v] = "none"]
    /\ vadSegs' = [vadSegs EXCEPT ![v] = <<>>]
    /\ UNCHANGED <<ctxVars, srtVars, status, config, rows, upPc, segs, tempAudio, keyOk, opsLeft, http>>

\* The task runner of the design (at-least-once execution, a bounded number
\* of attempts): the message of a task that has ended, with or without an
\* exception, is delivered once more and the task body starts again from its
\* first line.  Nothing under the task's source does this; the action is
\* part of SpecRerun only.
TaskStartAgain(v) ==
    /\ tpc[v] \in {"failed", "succeeded"}
    /\ attempts[v] >= 1 /\ attempts[v] < MaxAttempts
    /\ tpc' = [tpc EXCEPT ![v] = "check"]
    /\ attempts' = [attempts EXCEPT ![v] = @ + 1]
    /\ exc' = [exc EXCEPT ![v] = "none"]
    /\ vadSegs' = [vadSegs EXCEPT ![v] = <<>>]
    /\ UNCHANGED <<ctxVars, srtVars, status, config, rows, upPc, queue, segs, tempAudio, keyOk,
                   opsLeft, http>>

\* process_video: os.path.exists(video_path), else FileNotFoundError, raised
\* before the try block and so past its finally.
ProcessVideoCheck(v) ==
    /\ tpc[v] = "check"
    /\ \E exists \in BOOLEAN :
          IF exists
          THEN /\ tpc' = [tpc EXCEPT ![v] = "extract"]
               /\ exc' = exc
          ELSE /\ tpc' = [tpc EXCEPT ![v] = "handler"]
               /\ exc' = [exc EXCEPT ![v] = "FileNotFoundError"]
    /\ UNCHANGED <<ctxVars, srtVars, status, config, rows, upPc, queue, attempts, vadSegs, segs, tempAudio,
                   keyOk, opsLeft, http>>

\* extract_audio: ffmpeg writes the temp wav, or fails with RuntimeError (and
\* may or may not have left a file behind).
ExtractAudio(v) ==
    /\ tpc[v] = "extract"
    /\ \E ok \in BOOLEAN, left \in BOOLEAN :
          IF ok
          THEN /\ left
               /\ tpc' = [tpc EXCEPT ![v] = "vad"]
               /\ tempAudio' = [tempAudio EXCEPT ![v] = TRUE]
               /\ exc' = exc
          ELSE /\ tpc' = [tpc EXCEPT ![v] = "finally"]
               /\ tempAudio' = [tempAudio EXCEPT ![v] = left]
               /\ exc' = [exc EXCEPT ![v] = "RuntimeError"]
    /\ UNCHANGED <<ctxVars, srtVars, status, config, rows, upPc, queue, attempts, vadSegs, segs,
                   keyOk, opsLeft, http>>

\* The speech intervals of a recording with n of them, in samples: ordered and
\* non-overlapping.
VadIntervals(n) ==
    [k \in 1..n |-> [start |-> 2 * (k - 1) * SampleRate, end |-> (2 * k - 1) * SampleRate]]

\* get_vad_segments: n speech intervals, or the detector cannot be loaded.
GetVadSegments(v) ==
    /\ tpc[v] = "vad"
    /\ \/ \E n \in 0..MaxSegs :
             /\ vadSegs' = [vadSegs EXCEPT ![v] = VadIntervals(n)]
             /\ tpc' = [tpc EXCEPT ![v] = "whisper"]
             /\ exc' = exc
       \/ /\ tpc' = [tpc EXCEPT ![v] = "finally"]
          /\ exc' = [exc EXCEPT ![v] = "SegmentationError"]
          /\ vadSegs' = vadSegs
    /\ UNCHANGED <<ctxVars, srtVars, status, config, rows, upPc, queue, attempts, segs, tempAudio,
                   keyOk, opsLeft, http>>

\* What model.transcribe may return as result["text"] for one interval.
WhisperTexts == Texts \cup {<<" ">>, <<"a", " ">>}

\* transcribe_with_whisper: one record per interval, given the decoded texts.
transcribe_with_whisper(vad_segments, raw) ==
    [k \in 1..Len(vad_segments) |->
        [start |-> vad_segments[k].start \div SampleRate,
         end |-> vad_segments[k].end \div SampleRate,
         text_original |-> Strip(raw[k]),
         confidence |-> WhisperConfidence]]

\* Step 3 of process_video, or the Whisper model cannot be loaded.
TranscribeWithWhisper(v) ==
    /\ tpc[v] = "whisper"
    /\ \/ \E raw \in [1..Len(vadSegs[v]) -> WhisperTexts] :
             /\ segs' = [segs EXCEPT ![v] = transcribe_with_whisper(vadSegs[v], raw)]
             /\ tpc' = [tpc EXCEPT ![v] = "translate"]
             /\ exc' = exc
       \/ /\ tpc' = [tpc EXCEPT ![v] = "finally"]
          /\ exc' = [exc EXCEPT ![v] = "TranscriptionError"]
          /\ segs' = segs
    /\ UNCHANGED <<ctxVars, srtVars, status, config, rows, upPc, queue, attempts, vadSegs, tempAudio,
                   keyOk, opsLeft, http>>

\* The context_window parameter of process_video in the run of video v: the
\* task calls process_video(file_path) and so leaves the default in place.
RunContextWindow(v) == DefaultContextWindow

\* Step 4 of process_video: translate_segments under process_video's own
\* context_window.
TranslateSegments(v) ==
    /\ tpc[v] = "translate"
    /\ \E outcomes \in [1..Len(segs[v]) -> LLMOutcomes] :
          LET r == translate_segments(segs[v], RunContextWindow(v), keyOk, outcomes)
          IN  IF r.raised
              THEN /\ exc' = [exc EXCEPT ![v] = "ValueError"]
                   /\ segs' = segs
              ELSE /\ exc' = exc
                   /\ segs' = [segs EXCEPT ![v] = r.value]
    /\ tpc' = [tpc EXCEPT ![v] = "finally"]
    /\ UNCHANGED <<ctxVars, srtVars, status, config, rows, upPc, queue, attempts, vadSegs, tempAudio,
                   keyOk, opsLeft, http>>

\* A finally block that clears the temp directory, the wav files of the
\* other runs with it.
FinallyClearsTempDir(v) ==
    /\ tpc[v] = "finally"
    /\ tempAudio' = [u \in DOMAIN tempAudio |-> FALSE]
    /\ tpc' = [tpc EXCEPT ![v] = IF exc[v] = "none" THEN "save" ELSE "handler"]
    /\ segs' = [segs EXCEPT ![v] = IF exc[v] = "none" THEN @ ELSE <<>>]
    /\ UNCHANGED <<ctxVars, srtVars, status, config, rows, upPc, queue, attempts, vadSegs, exc,
                   keyOk, opsLeft, http>>

\* A finally block after which process_video returns what it has, whether or
\* not a stage raised.
FinallySwallows(v) ==
    /\ tpc[v] = "finally"
    /\ tempAudio' = [tempAudio EXCEPT ![v] = FALSE]
    /\ tpc' = [tpc EXCEPT ![v] = "save"]
    /\ exc' = [exc EXCEPT ![v] = "none"]
    /\ segs' = segs
    /\ UNCHANGED <<ctxVars, srtVars, status, config, rows, upPc, queue, attempts, vadSegs, keyOk,
                   opsLeft, http>>

\* A finally block that leaves the temp wav where it is.
FinallyKeepsAudio(v) ==
    /\ tpc[v] = "finally"
    /\ tempAudio' = tempAudio
    /\ tpc' = [tpc EXCEPT ![v] = IF exc[v] = "none" THEN "save" ELSE "handler"]
    /\ segs' = [segs EXCEPT ![v] = IF exc[v] = "none" THEN @ ELSE <<>>]
    /\ UNCHANGED <<ctxVars, srtVars, status, config, rows, upPc, queue, attempts, vadSegs, exc, keyOk,
                   opsLeft, http>>

\* The finally block of process_video: the temp wav is removed if it exists;
\* then process_video returns subtitles or the exception goes on to the task.
Finally(v) ==
    /\ tpc[v] = "finally"
    /\ tempAudio' = [tempAudio EXCEPT ![v] = FALSE]
    /\ tpc' = [tpc EXCEPT ![v] = IF exc[v] = "none" THEN "save" ELSE "handler"]
    /\ segs' = [segs EXCEPT ![v] = IF exc[v] = "none" THEN @ ELSE <<>>]
    /\ UNCHANGED <<ctxVars, srtVars, status, config, rows, upPc, queue, attempts, vadSegs, exc, keyOk,
                   opsLeft, http>>

\* The Subtitle objects _save_subtitles_and_complete adds for segments, with
\* the keys the store gives them on flush.
NewSubtitles(table, video_id, segments) ==
    {SubtitleRow(MaxId(table) + k, video_id, segments[k].start, segments[k].end,
                 segments[k].text_original,
                 IF "text_translated" \in DOMAIN segments[k]
                    THEN segments[k].text_translated ELSE EmptyText,
                 IF "confidence" \in DOMAIN segments[k]
                    THEN segments[k].confidence ELSE 0) : k \in 1..Len(segments)}

\* A save that adds rows only for a video that has none yet.
SaveCommitUnlessSaved(v) ==
    /\ rows' = IF {s \in rows : s.video_id = v} = {}
               THEN rows \cup NewSubtitles(rows, v, segs[v]) ELSE rows
    /\ status' = [status EXCEPT ![v] = "ready"]

\* A save that commits the READY status without the added rows.
SaveCommitStatusOnly(v) ==
    /\ rows' = rows
    /\ status' = [status EXCEPT ![v] = "ready"]

\* A save that first clears the rows its video already has.
SaveCommitReplacing(v) ==
    /\ rows' = {s \in rows : s.video_id # v} \cup NewSubtitles(rows, v, segs[v])
    /\ status' = [status EXCEPT ![v] = "ready"]

\* What the one session.commit() of _save_subtitles_and_complete makes
\* durable: the added rows and the READY status, together.
SaveCommit(v) ==
    /\ rows' = rows \cup NewSubtitles(rows, v, segs[v])
    /\ status' = [status EXCEPT ![v] = "ready"]

\* A save that makes every added row durable by itself, so that a commit
\* failing after the first row leaves that row behind.
SaveSubtitlesRowByRow(v) ==
    /\ tpc[v] = "save"
    /\ \E dbOk \in BOOLEAN :
          IF status[v] = "none"
          THEN /\ exc' = [exc EXCEPT ![v] = "ValueError"]
               /\ tpc' = [tpc EXCEPT ![v] = "handler"]
               /\ UNCHANGED <<ctxVars, srtVars, rows, status>>
          ELSE IF dbOk /\ NoWriter
          THEN /\ SaveCommit(v)
               /\ tpc' = [tpc EXCEPT ![v] = "succeeded"]
               /\ exc' = exc
          ELSE /\ exc' = [exc EXCEPT ![v] = "SaveError"]
               /\ tpc' = [tpc EXCEPT ![v] = "handler"]
               /\ rows' = rows \cup NewSubtitles(rows, v,
                              IF segs[v] = <<>> THEN <<>> ELSE <<segs[v][1]>>)
               /\ UNCHANGED <<ctxVars, srtVars, status>>
    /\ segs' = [segs EXCEPT ![v] = <<>>]
    /\ UNCHANGED <<ctxVars, srtVars, config, upPc, queue, attempts, vadSegs, tempAudio, keyOk, opsLeft, http>>

\* _save_subtitles_and_complete inside the task's try block.
SaveSubtitlesAndComplete(v) ==
    /\ tpc[v] = "save"
    /\ \E dbOk \in BOOLEAN :
          IF status[v] = "none"
          THEN /\ exc' = [exc EXCEPT ![v] = "ValueError"]
               /\ tpc' = [tpc EXCEPT ![v] = "handler"]
               /\ UNCHANGED <<ctxVars, srtVars, rows, status>>
          ELSE IF dbOk /\ NoWriter
          THEN /\ SaveCommit(v)
               /\ tpc' = [tpc EXCEPT ![v] = "succeeded"]
               /\ exc' = exc
          ELSE /\ exc' = [exc EXCEPT ![v] = "SaveError"]
               /\ tpc' = [tpc EXCEPT ![v] = "handler"]
               /\ UNCHANGED <<ctxVars, srtVars, rows, status>>
    /\ segs' = [segs EXCEPT ![v] = <<>>]
    /\ UNCHANGED <<ctxVars, srtVars, config, upPc, queue, attempts, vadSegs, tempAudio, keyOk, opsLeft, http>>

\* _update_video_status(video_id, status): what its commit makes durable.
update_video_status(v, new_status) ==
    status' = [status EXCEPT ![v] = IF @ # "none" THEN new_status ELSE @]

\* The except block of process_video_task: the ERROR update, then raise e.
\* When the update itself raises, that exception leaves the task instead.
ErrorHandler(v) ==
    /\ tpc[v] = "handler"
    /\ \E dbOk \in BOOLEAN :
          IF dbOk /\ NoWriter
          THEN /\ update_video_status(v, "error")
               /\ exc' = exc
          ELSE /\ status' = status
               /\ exc' = [exc EXCEPT ![v] = "StatusUpdateError"]
    /\ tpc' = [tpc EXCEPT ![v] = "failed"]
    /\ UNCHANGED <<ctxVars, srtVars, config, rows, upPc, queue, attempts, vadSegs, segs, tempAudio,
                   keyOk, opsLeft, http>>

\* ------------------------------------------------- the subtitle edit routes
\* Request bodies the clients send (SubtitleUpdate, SubtitleCreate).
UpdateRequests ==
    [text_original : {None, Some(EmptyText), Some(<<"b">>)},
     text_translated : {None, Some(<<"A">>)},
     start_time : {None} \cup {Some(t) : t \in 0..(MaxTime + 1)},
     end_time : {None, Some(MaxTime + 1)}]

CreateRequests ==
    [start_time : Times, end_time : {MaxTime + 1}, text_original : Texts,
     text_translated : {EmptyText, <<"A">>}]

\* trigger_translation, with what the LLM does if it is called.
Triggers == {"no"} \cup LLMOutcomes

\* The assignments update_subtitle makes from the request body.
ApplyUpdate(sub, upd) ==
    [sub EXCEPT
        !.text_original = IF upd.text_original # None THEN TheValue(upd.text_original) ELSE @,
        !.text_translated = IF upd.text_translated # None THEN TheValue(upd.text_translated) ELSE @,
        !.start_time = IF upd.start_time # None THEN TheValue(upd.start_time) ELSE @,
        !.end_time = IF upd.end_time # None THEN TheValue(upd.end_time) ELSE @]

\* The retranslation block of update_subtitle for the edited row s1, given the
\* two query results: the row to commit and what was passed on.
Retranslate(s1, prev_subs, next_subs, outcome) ==
    LET c == PointContext(prev_subs, next_subs)
        j == JoinedContext(c)
        r == translate_single_text(s1.text_original, j.context_before, j.context_after,
                                   j.previous_translated, keyOk, outcome)
    IN  [row |-> IF ~r.raised /\ r.value # EmptyText
                    THEN [s1 EXCEPT !.text_translated = r.value] ELSE s1,
         llm |-> IF r.raised THEN "raised"
                 ELSE IF Strip(s1.text_original) = EmptyText THEN "skipped" ELSE outcome,
         call |-> c]

\* A request of a subtitle route and the session it holds (get_db): pc is the
\* await it stands before, base the column values its session takes for
\* persisted, obj the attributes of its Subtitle object, tx the row as its
\* open transaction has written it (None: nothing written), broken a failed
\* flush; code is the answer once pc is "done".
NoRow == SubtitleRow(0, 0, 0, 0, EmptyText, EmptyText, 0)

NoHttp == [op |-> "none", pc |-> "done", code |-> 0, sub_id |-> 0, trigger |-> "no",
           base |-> NoRow, obj |-> NoRow, tx |-> None, broken |-> FALSE, window |-> 0,
           prev_subs |-> <<>>, llm |-> "none", call |-> NoCall, explicit |-> None]

\* The request q answered: its session is closed.
Answered(q, code) == [NoHttp EXCEPT !.op = q.op, !.sub_id = q.sub_id, !.code = code]

\* The request q after its commit: the objects of its session are expired.
Committed(q) == [NoHttp EXCEPT !.op = q.op, !.sub_id = q.sub_id, !.pc = "refresh"]

\* The committed row with key id, as a set of at most one row.
RowWithId(id) == {s \in rows : s.id = id}

\* The table as the session of request q reads it: the committed rows, with
\* the row its own transaction has written in place of the committed one.
ViewOf(q) == IF q.tx = None THEN rows ELSE {s \in rows : s.id # q.sub_id} \cup q.tx

\* The objects a query of request q returns for the rows f: for a row it
\* has loaded before, its own row or one of prev_subs, the session hands out
\* the Subtitle object it already holds, as it is.
Loaded(q, f) ==
    [k \in 1..Len(f) |->
        IF f[k].id = q.sub_id THEN q.obj
        ELSE IF \E j \in 1..Len(q.prev_subs) : q.prev_subs[j].id = f[k].id
        THEN q.prev_subs[CHOOSE j \in 1..Len(q.prev_subs) : q.prev_subs[j].id = f[k].id]
        ELSE f[k]]

\* The row an UPDATE of the changed columns makes of the row cur.
WithChanges(cur, base, obj) ==
    [f \in DOMAIN cur |-> IF obj[f] # base[f] THEN obj[f] ELSE cur[f]]

\* session.flush() for request q: an UPDATE of the changed columns of its
\* row, which fails when no row has its key (StaleDataError).
Flush(q) ==
    LET cur == IF q.tx # None THEN q.tx ELSE RowWithId(q.sub_id)
    IN  IF q.obj = q.base THEN q
        ELSE IF cur = {} THEN [q EXCEPT !.broken = TRUE]
        ELSE [q EXCEPT !.tx = Some(WithChanges(TheValue(cur), q.base, q.obj)),
                       !.base = q.obj]

\* Whether the flush of request q writes to the store.
Writes(q) == q.obj # q.base

\* PUT /subtitles/{sub_id}: the request arrives, the row is selected and the
\* body is applied to the object.
UpdateSelect(sub_id, upd, trigger) ==
    /\ opsLeft > 0
    /\ opsLeft' = opsLeft - 1
    /\ LET found == RowWithId(sub_id)
           q == [NoHttp EXCEPT !.op = "update", !.sub_id = sub_id]
       IN  IF found = {}
           THEN http' = Append(http, Answered(q, 404))
           ELSE LET sub == TheValue(found)
                    s1 == ApplyUpdate(sub, upd)
                    retranslate == trigger # "no" /\ s1.text_original # EmptyText
                IN  http' = Append(http,
                               [q EXCEPT !.pc = IF retranslate THEN "video" ELSE "commit",
                                         !.trigger = IF retranslate THEN trigger ELSE "no",
                                         !.base = sub, !.obj = s1,
                                         !.explicit = upd.text_translated])
    /\ UNCHANGED <<ctxVars, srtVars, status, config, rows, upPc, queue, taskVars, keyOk>>

\* update_subtitle: the video is selected for its stored context_window; the
\* session flushes the changed object first.  A failed flush, for a row
\* that is gone or a lock that is taken, is caught by the except block and
\* the request goes on to its commit.
UpdateVideoQuery(r) ==
    /\ r \in DOMAIN http
    /\ http[r].op = "update" /\ http[r].pc = "video"
    /\ LET q == IF Writes(http[r]) /\ ~LockFree(r)
                THEN [http[r] EXCEPT !.broken = TRUE] ELSE Flush(http[r])
       IN  http' = [http EXCEPT ![r] =
                       IF q.broken THEN [q EXCEPT !.pc = "commit"]
                       ELSE [q EXCEPT !.pc = "prev",
                                      !.window = config[q.obj.video_id].context_window]]
    /\ UNCHANGED <<ctxVars, srtVars, status, config, rows, upPc, queue, taskVars, keyOk, opsLeft>>

\* update_subtitle: the prev_subs query.
UpdatePrevQuery(r) ==
    /\ r \in DOMAIN http
    /\ http[r].op = "update" /\ http[r].pc = "prev"
    /\ LET q == http[r]
       IN  \E prev_subs \in PrevSubsQuery(ViewOf(q), q.obj, q.window) :
              http' = [http EXCEPT ![r] = [q EXCEPT !.pc = "next",
                                                    !.prev_subs = Loaded(q, prev_subs)]]
    /\ UNCHANGED <<ctxVars, srtVars, status, config, rows, upPc, queue, taskVars, keyOk, opsLeft>>

\* update_subtitle: the next_subs query, then the contexts are joined and
\* translate_single_text is called; its exception is caught.
UpdateNextQuery(r) ==
    /\ r \in DOMAIN http
    /\ http[r].op = "update" /\ http[r].pc = "next"
    /\ LET q == http[r]
       IN  \E next_subs \in NextSubsQuery(ViewOf(q), q.obj, q.window) :
              LET t == Retranslate(q.obj, q.prev_subs, Loaded(q, next_subs), q.trigger)
              IN  http' = [http EXCEPT ![r] = [q EXCEPT !.pc = "commit", !.obj = t.row,
                                                        !.prev_subs = <<>>, !.window = 0,
                                                        !.llm = t.llm, !.call = t.call]]
    /\ UNCHANGED <<ctxVars, srtVars, status, config, rows, upPc, queue, taskVars, keyOk, opsLeft>>

\* update_subtitle: db.commit().  After a failed flush the session refuses
\* the commit; a flush that fails here, for a row that is gone or a lock
\* that is taken, ends the request as well.
UpdateCommit(r) ==
    /\ r \in DOMAIN http
    /\ http[r].op = "update" /\ http[r].pc = "commit"
    /\ LET q == IF http[r].broken THEN http[r]
                ELSE IF Writes(http[r]) /\ ~LockFree(r)
                THEN [http[r] EXCEPT !.broken = TRUE] ELSE Flush(http[r])
       IN  IF q.broken
           THEN /\ http' = [http EXCEPT ![r] = Answered(q, 500)]
                /\ rows' = rows
           ELSE /\ http' = [http EXCEPT ![r] = Committed(q)]
                /\ rows' = ViewOf(q)
    /\ UNCHANGED <<ctxVars, srtVars, status, config, upPc, queue, taskVars, keyOk, opsLeft>>

\* update_subtitle: db.refresh(subtitle) and the answer; the refresh raises
\* when the row is gone.
UpdateRefresh(r) ==
    /\ r \in DOMAIN http
    /\ http[r].op = "update" /\ http[r].pc = "refresh"
    /\ http' = [http EXCEPT ![r] =
                   Answered(@, IF RowWithId(@.sub_id) = {} THEN 500 ELSE 200)]
    /\ UNCHANGED <<ctxVars, srtVars, status, config, rows, upPc, queue, taskVars, keyOk, opsLeft>>

\* POST /videos/{video_id}/subtitles: the request arrives, the video is
\* selected and the new Subtitle object is added to the session.
CreateSelect(v, req) ==
    /\ opsLeft > 0
    /\ opsLeft' = opsLeft - 1
    /\ LET q == [NoHttp EXCEPT !.op = "create"]
       IN  IF status[v] = "none"
           THEN http' = Append(http, Answered(q, 404))
           ELSE http' = Append(http,
                           [q EXCEPT !.pc = "commit",
                                     !.obj = SubtitleRow(0, v, req.start_time, req.end_time,
                                                         req.text_original, req.text_translated,
                                                         ManualConfidence)])
    /\ UNCHANGED <<ctxVars, srtVars, status, config, rows, upPc, queue, taskVars, keyOk>>

\* create_subtitle: db.commit() inserts the row under a new key, or raises
\* for a lock that is taken and ends the request.
CreateCommit(r) ==
    /\ r \in DOMAIN http
    /\ http[r].op = "create" /\ http[r].pc = "commit"
    /\ LET id == MaxId(rows) + 1
       IN  IF LockFree(r)
           THEN /\ rows' = rows \cup {[http[r].obj EXCEPT !.id = id]}
                /\ http' = [http EXCEPT ![r] = Committed([@ EXCEPT !.sub_id = id])]
           ELSE /\ rows' = rows
                /\ http' = [http EXCEPT ![r] = Answered(@, 500)]
    /\ UNCHANGED <<ctxVars, srtVars, status, config, upPc, queue, taskVars, keyOk, opsLeft>>

\* create_subtitle: db.refresh(new_subtitle) and the answer.
CreateRefresh(r) ==
    /\ r \in DOMAIN http
    /\ http[r].op = "create" /\ http[r].pc = "refresh"
    /\ http' = [http EXCEPT ![r] =
                   Answered(@, IF RowWithId(@.sub_id) = {} THEN 500 ELSE 201)]
    /\ UNCHANGED <<ctxVars, srtVars, status, config, rows, upPc, queue, taskVars, keyOk, opsLeft>>

\* DELETE /subtitles/{sub_id}: the request arrives and the row is selected.
DeleteSelect(sub_id) ==
    /\ opsLeft > 0
    /\ opsLeft' = opsLeft - 1
    /\ LET q == [NoHttp EXCEPT !.op = "delete", !.sub_id = sub_id]
       IN  IF RowWithId(sub_id) = {}
           THEN http' = Append(http, Answered(q, 404))
           ELSE http' = Append(http, [q EXCEPT !.pc = "delete"])
    /\ UNCHANGED <<ctxVars, srtVars, status, config, rows, upPc, queue, taskVars, keyOk>>

\* delete_subtitle: db.delete(subtitle) marks the object in the session.
DeleteMark(r) ==
    /\ r \in DOMAIN http
    /\ http[r].op = "delete" /\ http[r].pc = "delete"
    /\ http' = [http EXCEPT ![r] = [@ EXCEPT !.pc = "commit"]]
    /\ UNCHANGED <<ctxVars, srtVars, status, config, rows, upPc, queue, taskVars, keyOk, opsLeft>>

\* A commit that deletes the rows starting at the same time along with the row.
DeleteCommitAndTies(r) ==
    /\ r \in DOMAIN http
    /\ http[r].op = "delete" /\ http[r].pc = "commit"
    /\ rows' = {s \in rows : \A d \in RowWithId(http[r].sub_id) : s.start_time # d.start_time}
    /\ http' = [http EXCEPT ![r] = Answered(@, 204)]
    /\ UNCHANGED <<ctxVars, srtVars, status, config, upPc, queue, taskVars, keyOk, opsLeft>>

\* delete_subtitle: db.commit() deletes the row with the key; that no row
\* has the key any more is a warning, not an error; a lock that is taken
\* makes it raise and ends the request with the row in place.
DeleteCommit(r) ==
    /\ r \in DOMAIN http
    /\ http[r].op = "delete" /\ http[r].pc = "commit"
    /\ IF LockFree(r)
       THEN /\ rows' = {s \in rows : s.id # http[r].sub_id}
            /\ http' = [http EXCEPT ![r] = Answered(@, 204)]
       ELSE /\ rows' = rows
            /\ http' = [http EXCEPT ![r] = Answered(@, 500)]
    /\ UNCHANGED <<ctxVars, srtVars, status, config, upPc, queue, taskVars, keyOk, opsLeft>>

\* GET /videos/{video_id}/status: the status field of the answer.
get_video_status(v) == status[v]

\* All orders in which the store may return the rows of S with no ORDER BY.
AnyOrder(S) ==
    {f \in [1..Cardinality(S) -> S] : \A i, j \in 1..Cardinality(S) : i # j => f[i] # f[j]}

\* A listing whose query has no order_by.
get_video_subtitles_unordered(v) ==
    IF status[v] = "none" THEN {[code |-> 404, subtitles |-> <<>>]}
    ELSE {[code |-> 200, subtitles |-> f] : f \in AnyOrder({s \in rows : s.video_id = v})}

\* GET /videos/{video_id}/subtitles: the answers the route may give, 404
\* for an unknown video, else one of the lists the store may return.
get_video_subtitles(v) ==
    IF status[v] = "none" THEN {[code |-> 404, subtitles |-> <<>>]}
    ELSE {[code |-> 200, subtitles |-> f] : f \in OrderedAsc({s \in rows : s.video_id = v})}

\* Subtitle ids a client may name: the existing ones and one unknown.
SubIds == 1..(MaxId(rows) + 1)

\* ------------------------------------------------------------ the system
Next ==
    \/ \E v \in VideoIds, w \in ContextWindows : UploadCreate(v, w)
    \/ \E v \in VideoIds : UploadSetProcessing(v)
    \/ \E v \in VideoIds : UploadEnqueue(v)
    \/ \E v \in VideoIds : TaskStart(v)
    \/ \E v \in VideoIds : ProcessVideoCheck(v)
    \/ \E v \in VideoIds : ExtractAudio(v)
    \/ \E v \in VideoIds : GetVadSegments(v)
    \/ \E v \in VideoIds : TranscribeWithWhisper(v)
    \/ \E v \in VideoIds : TranslateSegments(v)
    \/ \E v \in VideoIds : Finally(v)
    \/ \E v \in VideoIds : SaveSubtitlesAndComplete(v)
    \/ \E v \in VideoIds : ErrorHandler(v)
    \/ \E id \in SubIds, upd \in UpdateRequests, t \in Triggers : UpdateSelect(id, upd, t)
    \/ \E v \in VideoIds, req \in CreateRequests : CreateSelect(v, req)
    \/ \E id \in SubIds : DeleteSelect(id)
    \/ \E r \in DOMAIN http : UpdateVideoQuery(r)
    \/ \E r \in DOMAIN http : UpdatePrevQuery(r)
    \/ \E r \in DOMAIN http : UpdateNextQuery(r)
    \/ \E r \in DOMAIN http : UpdateCommit(r)
    \/ \E r \in DOMAIN http : UpdateRefresh(r)
    \/ \E r \in DOMAIN http : CreateCommit(r)
    \/ \E r \in DOMAIN http : CreateRefresh(r)
    \/ \E r \in DOMAIN http : DeleteMark(r)
    \/ \E r \in DOMAIN http : DeleteCommit(r)

Spec == Init /\ [][Next]_vars

\* ---------------------------------------------------- the context study
\* translate_segments and the retranslation block of update_subtitle as pure
\* functions: the texts and the window are drawn at the start, the bulk path
\* runs over them, its result is saved, and one saved row is re-translated
\* under the same window.
SeqsUpTo(S, n) == UNION {[1..k -> S] : k \in 0..n}

InitContext ==
    /\ status = [v \in VideoIds |-> "none"]
    /\ config = [v \in VideoIds |-> [context_window |-> DefaultContextWindow]]
    /\ rows = {}
    /\ upPc = [v \in VideoIds |-> "idle"]
    /\ queue = {}
    /\ tpc = [v \in VideoIds |-> "none"]
    /\ attempts = [v \in VideoIds |-> 0]
    /\ vadSegs = [v \in VideoIds |-> <<>>]
    /\ segs = [v \in VideoIds |-> <<>>]
    /\ exc = [v \in VideoIds |-> "none"]
    /\ tempAudio = [v \in VideoIds |-> FALSE]
    /\ keyOk \in BOOLEAN
    /\ opsLeft = MaxOps
    /\ http = <<>>
    /\ ctxIn \in {[texts |-> t, context_window |-> w] :
                     t \in SeqsUpTo(Texts, MaxTexts), w \in ContextWindows}
    /\ ctxBulk = NoCtxBulk
    /\ ctxPoint = NoCtxPoint
    /\ srtIn = NoSrtIn
    /\ srtOut = NoSrtOut

\* translate_segments on the records transcribe_with_whisper makes of the texts.
RunBulk ==
    /\ ~ctxBulk.done
    /\ \E outcomes \in [1..Len(ctxIn.texts) -> LLMOutcomes] :
          LET segments == transcribe_with_whisper(VadIntervals(Len(ctxIn.texts)), ctxIn.texts)
              r == translate_segments(segments, ctxIn.context_window, keyOk, outcomes)
          IN  ctxBulk' = [done |-> TRUE, outcomes |-> outcomes, raised |-> r.raised,
                          value |-> r.value, calls |-> r.calls]
    /\ UNCHANGED <<sysVars, keyOk, srtVars, ctxIn, ctxPoint>>

\* update_subtitle with trigger_translation and an empty body for row i of
\* the saved result: the retranslation block, entered when the row has an
\* original text.
RunPoint(i) ==
    /\ ctxBulk.done
    /\ ~ctxBulk.raised
    /\ ~ctxPoint.done
    /\ i \in 1..Len(ctxBulk.value)
    /\ LET table == NewSubtitles({}, 1, ctxBulk.value)
           sub == CHOOSE s \in table : s.id = i
       IN  IF sub.text_original # EmptyText
           THEN \E prev_subs \in PrevSubsQuery(table, sub, ctxIn.context_window),
                   next_subs \in NextSubsQuery(table, sub, ctxIn.context_window) :
                   ctxPoint' = [done |-> TRUE, index |-> i, called |-> TRUE,
                                call |-> Retranslate(sub, prev_subs, next_subs, "ok").call]
           ELSE ctxPoint' = [done |-> TRUE, index |-> i, called |-> FALSE, call |-> NoCall]
    /\ UNCHANGED <<sysVars, keyOk, srtVars, ctxIn, ctxBulk>>

NextContext ==
    \/ RunBulk
    \/ \E i \in 1..MaxTexts : RunPoint(i)

SpecContext == InitContext /\ [][NextContext]_vars

\* ------------------------------------------------------ the editing session
\* The subtitle routes at work on several videos: every video but the last
\* is READY with the rows of its run saved, the run of the last one has come
\* to the save, every run with MaxSegs segments, and the clients send edit
\* requests for any of them, one while another is under way.
EditVideoIds == 1..MaxEditVideos

\* What process_video returns for a recording of n intervals, each heard as "a".
RunResult(n) ==
    translate_segments(transcribe_with_whisper(VadIntervals(n), [k \in 1..n |-> <<"a">>]),
                       DefaultContextWindow, TRUE, [k \in 1..n |-> "ok"]).value

\* The subtitles table after the runs of videos 1..v have saved counts[u]
\* segments each, one run after the other.
RECURSIVE SavedTable(_, _)
SavedTable(v, counts) ==
    IF v = 0 THEN {}
    ELSE LET table == SavedTable(v - 1, counts)
         IN  table \cup NewSubtitles(table, v, RunResult(counts[v]))

\* The requests of the editing session: an update moves its subtitle behind
\* the rows of the runs or leaves it where it is, a creation puts its
\* subtitle at the start of one of them.
EditUpdateRequests ==
    {upd \in UpdateRequests :
        upd.end_time = None /\ upd.start_time \in {None, Some(MaxTime + 1)}}

EditCreateRequests == {req \in CreateRequests : req.start_time \in {0, MaxTime}}

InitEdit ==
    \E counts \in [EditVideoIds -> {MaxSegs}] :
       /\ status = [v \in EditVideoIds |->
                       IF v < MaxEditVideos THEN "ready" ELSE "processing"]
       /\ config = [v \in EditVideoIds |-> [context_window |-> DefaultContextWindow]]
       /\ rows = SavedTable(MaxEditVideos - 1, counts)
       /\ upPc = [v \in EditVideoIds |-> "done"]
       /\ queue = {}
       /\ tpc = [v \in EditVideoIds |-> IF v < MaxEditVideos THEN "succeeded" ELSE "save"]
       /\ attempts = [v \in EditVideoIds |-> 1]
       /\ vadSegs = [v \in EditVideoIds |-> VadIntervals(counts[v])]
       /\ segs = [v \in EditVideoIds |->
                     IF v < MaxEditVideos THEN <<>> ELSE RunResult(counts[v])]
       /\ exc = [v \in EditVideoIds |-> "none"]
       /\ tempAudio = [v \in EditVideoIds |-> FALSE]
       /\ keyOk \in BOOLEAN
       /\ opsLeft = MaxEdits
       /\ http = <<>>
       /\ ctxIn = NoCtxIn
       /\ ctxBulk = NoCtxBulk
       /\ ctxPoint = NoCtxPoint
       /\ srtIn = NoSrtIn
       /\ srtOut = NoSrtOut

NextEdit ==
    \/ \E v \in EditVideoIds : SaveSubtitlesAndComplete(v)
    \/ \E v \in EditVideoIds : ErrorHandler(v)
    \/ \E id \in SubIds, upd \in EditUpdateRequests, t \in Triggers : UpdateSelect(id, upd, t)
    \/ \E v \in EditVideoIds, req \in EditCreateRequests : CreateSelect(v, req)
    \/ \E id \in SubIds : DeleteSelect(id)
    \/ \E r \in DOMAIN http : UpdateVideoQuery(r)
    \/ \E r \in DOMAIN http : UpdatePrevQuery(r)
    \/ \E r \in DOMAIN http : UpdateNextQuery(r)
    \/ \E r \in DOMAIN http : UpdateCommit(r)
    \/ \E r \in DOMAIN http : UpdateRefresh(r)
    \/ \E r \in DOMAIN http : CreateCommit(r)
    \/ \E r \in DOMAIN http : CreateRefresh(r)
    \/ \E r \in DOMAIN http : DeleteMark(r)
    \/ \E r \in DOMAIN http : DeleteCommit(r)

SpecEdit == InitEdit /\ [][NextEdit]_vars

\* ------------------------------------------------------- concurrent runs
\* Several videos have been uploaded and their task messages wait in the
\* broker; workers take them and run them side by side.
RunVideoIds == 1..MaxRunVideos

InitRuns ==
    /\ status = [v \in RunVideoIds |-> "processing"]
    /\ config = [v \in RunVideoIds |-> [context_window |-> DefaultContextWindow]]
    /\ rows = {}
    /\ upPc = [v \in RunVideoIds |-> "done"]
    /\ queue = RunVideoIds
    /\ tpc = [v \in RunVideoIds |-> "none"]
    /\ attempts = [v \in RunVideoIds |-> 0]
    /\ vadSegs = [v \in RunVideoIds |-> <<>>]
    /\ segs = [v \in RunVideoIds |-> <<>>]
    /\ exc = [v \in RunVideoIds |-> "none"]
    /\ tempAudio = [v \in RunVideoIds |-> FALSE]
    /\ keyOk \in BOOLEAN
    /\ opsLeft = 0
    /\ http = <<>>
    /\ ctxIn = NoCtxIn
    /\ ctxBulk = NoCtxBulk
    /\ ctxPoint = NoCtxPoint
    /\ srtIn = NoSrtIn
    /\ srtOut = NoSrtOut

NextRuns ==
    \/ \E v \in RunVideoIds : TaskStart(v)
    \/ \E v \in RunVideoIds : ProcessVideoCheck(v)
    \/ \E v \in RunVideoIds : ExtractAudio(v)
    \/ \E v \in RunVideoIds : GetVadSegments(v)
    \/ \E v \in RunVideoIds : TranscribeWithWhisper(v)
    \/ \E v \in RunVideoIds : TranslateSegments(v)
    \/ \E v \in RunVideoIds : Finally(v)
    \/ \E v \in RunVideoIds : SaveSubtitlesAndComplete(v)
    \/ \E v \in RunVideoIds : ErrorHandler(v)

SpecRuns == InitRuns /\ [][NextRuns]_vars

\* ------------------------------------------------------------- re-runs
\* The run of an uploaded video under a runner that may deliver the message
\* of an ended task again (TaskStartAgain).
InitRerun ==
    /\ status = [v \in VideoIds |-> "processing"]
    /\ config = [v \in VideoIds |-> [context_window |-> DefaultContextWindow]]
    /\ rows = {}
    /\ upPc = [v \in VideoIds |-> "done"]
    /\ queue = VideoIds
    /\ tpc = [v \in VideoIds |-> "none"]
    /\ attempts = [v \in VideoIds |-> 0]
    /\ vadSegs = [v \in VideoIds |-> <<>>]
    /\ segs = [v \in VideoIds |-> <<>>]
    /\ exc = [v \in VideoIds |-> "none"]
    /\ tempAudio = [v \in VideoIds |-> FALSE]
    /\ keyOk \in BOOLEAN
    /\ opsLeft = 0
    /\ http = <<>>
    /\ ctxIn = NoCtxIn
    /\ ctxBulk = NoCtxBulk
    /\ ctxPoint = NoCtxPoint
    /\ srtIn = NoSrtIn
    /\ srtOut = NoSrtOut

NextRerun ==
    \/ \E v \in VideoIds : TaskStart(v)
    \/ \E v \in VideoIds : TaskStartAgain(v)
    \/ \E v \in VideoIds : ProcessVideoCheck(v)
    \/ \E v \in VideoIds : ExtractAudio(v)
    \/ \E v \in VideoIds : GetVadSegments(v)
    \/ \E v \in VideoIds : TranscribeWithWhisper(v)
    \/ \E v \in VideoIds : TranslateSegments(v)
    \/ \E v \in VideoIds : Finally(v)
    \/ \E v \in VideoIds : SaveSubtitlesAndComplete(v)
    \/ \E v \in VideoIds : ErrorHandler(v)

SpecRerun == InitRerun /\ [][NextRerun]_vars

\* ------------------------------------------------------- the export study
\* generate_srt as a pure function: a list of subtitles and the flag are
\* drawn at the start and generate_srt runs over them.
\* Start times in ticks: 0, 1/16 s, 1.5 s, 1 h 1 min 1 s and 1/16 s, and
\* -0.5 s; every subtitle lasts 1.5 s.
SrtTimes == {0, 1, 24, 58577, -8}

\* The texts a subtitle row may hold: NULL, "", one line, lines with an empty
\* line between them.
SrtOriginals == {None, Some(EmptyText), Some(<<"a">>), Some(<<"a", "\n", "\n", "b">>)}

SrtTranslations == {None, Some(EmptyText), Some(<<"A">>)}

SrtSubtitles ==
    {[start_time |-> t, end_time |-> t + 24, text_original |-> o, text_translated |-> tr] :
        t \in SrtTimes, o \in SrtOriginals, tr \in SrtTranslations}

InitSrt ==
    /\ status = [v \in VideoIds |-> "none"]
    /\ config = [v \in VideoIds |-> [context_window |-> DefaultContextWindow]]
    /\ rows = {}
    /\ upPc = [v \in VideoIds |-> "idle"]
    /\ queue = {}
    /\ tpc = [v \in VideoIds |-> "none"]
    /\ attempts = [v \in VideoIds |-> 0]
    /\ vadSegs = [v \in VideoIds |-> <<>>]
    /\ segs = [v \in VideoIds |-> <<>>]
    /\ exc = [v \in VideoIds |-> "none"]
    /\ tempAudio = [v \in VideoIds |-> FALSE]
    /\ keyOk = TRUE
    /\ opsLeft = MaxOps
    /\ http = <<>>
    /\ ctxIn = NoCtxIn
    /\ ctxBulk = NoCtxBulk
    /\ ctxPoint = NoCtxPoint
    /\ srtIn \in {[subtitles |-> subs, use_translated |-> u] :
                     subs \in SeqsUpTo(SrtSubtitles, MaxSrt), u \in BOOLEAN}
    /\ srtOut = NoSrtOut

GenerateSrt ==
    /\ ~srtOut.done
    /\ srtOut' = [done |-> TRUE, text |-> generate_srt(srtIn.subtitles, srtIn.use_translated)]
    /\ UNCHANGED <<sysVars, keyOk, ctxVars, srtIn>>

NextSrt == GenerateSrt

SpecSrt == InitSrt /\ [][NextSrt]_vars

\* ================================================================ claims

RowsOf(table, v) == {s \in table : s.video_id = v}

\* C1: the persisted status of a video takes the values UPLOADING, then
\* PROCESSING, then exactly one of READY or ERROR: the only changes of status
\* are none -> UPLOADING -> PROCESSING -> READY and PROCESSING -> ERROR.
C1_StatusOrderOnce ==
    [][\A v \in VideoIds :
          status'[v] # status[v] =>
             <<status[v], status'[v]>> \in {<<"none", "uploading">>,
                                           <<"uploading", "processing">>,
                                           <<"processing", "ready">>,
                                           <<"processing", "error">>}]_vars

\* The upload of a video has handed its task over and the one run of the
\* task has ended with ERROR committed.
C1_Witness ==
    \E v \in VideoIds :
       /\ upPc[v] = "done" /\ attempts[v] = 1
       /\ tpc[v] = "failed" /\ status[v] = "error"

\* C2: READY and ERROR are terminal and exclude each other in every
\* execution, those in which the task of a video is run again included: a
\* READY video never becomes ERROR or PROCESSING, an ERROR video never
\* becomes READY or PROCESSING.
C2_TerminalStates ==
    [][\A v \in DOMAIN status :
          /\ status[v] = "ready" => status'[v] \notin {"error", "processing"}
          /\ status[v] = "error" => status'[v] \notin {"ready", "processing"}]_vars

\* C3: the step that makes a video READY is the step that makes every
\* subtitle row of that run durable: a reader who sees READY finds all of the
\* run's rows, one per segment, and no save of that video still under way.
C3_ReadyWithAllRows ==
    [][\A v \in VideoIds :
          (status[v] # "ready" /\ status'[v] = "ready") =>
             /\ tpc[v] = "save" /\ tpc'[v] = "succeeded"
             /\ NewSubtitles(rows, v, segs[v]) \subseteq rows'
             /\ Cardinality(RowsOf(rows', v)) = Cardinality(RowsOf(rows, v)) + Len(segs[v])]_vars

\* A run of two segments has been saved, the video is READY and its two rows
\* are in the store.
C3_Witness ==
    \E v \in VideoIds :
       /\ status[v] = "ready" /\ tpc[v] = "succeeded" /\ opsLeft = MaxOps
       /\ Len(vadSegs[v]) = 2
       /\ Cardinality(RowsOf(rows, v)) = 2

\* C4: when a video becomes READY, exactly N subtitle rows owned by it exist,
\* N being the number of speech intervals its run detected.
C4_ExactlyNRowsAtReady ==
    [][\A v \in VideoIds :
          (status[v] # "ready" /\ status'[v] = "ready") =>
             Cardinality(RowsOf(rows', v)) = Len(vadSegs[v])]_vars

\* What a record may carry as text_translated when its single call went
\* well or fell back: the reply, the original text, or "" for a blank text.
TranslatedOrFallback(text) == {Strip(LLMReply(text)), text, EmptyText}

\* C5: a failing single-sentence translation never aborts the bulk
\* translation: the translation step of a run ends without an exception and
\* with all N records, each carrying a translated-or-fallback text, so that
\* the run goes on to the save.
C5_TranslationNeverAborts ==
    [][\A v \in VideoIds :
          (tpc[v] = "translate" /\ tpc'[v] = "finally") =>
             /\ exc'[v] = "none"
             /\ Len(segs'[v]) = Len(vadSegs[v])
             /\ \A k \in 1..Len(segs'[v]) :
                   segs'[v][k].text_translated
                      \in TranslatedOrFallback(segs[v][k].text_original)]_vars

\* The exceptions process_video and the bulk save raise.
PipelineExceptions ==
    {"FileNotFoundError", "RuntimeError", "SegmentationError", "TranscriptionError",
     "ValueError", "SaveError"}

\* C6: an attempt in which process_video or the save raised ends with the
\* video's status ERROR and with that same exception leaving the task.
C6_ErrorStatusAndOriginalException ==
    \A v \in VideoIds :
       tpc[v] = "failed" => status[v] = "error" /\ exc[v] \in PipelineExceptions

\* C7: a job that was enqueued does not stay PROCESSING: once its task has
\* ended, by returning or by raising, the status is READY or ERROR.
C7_LeavesProcessing ==
    \A v \in VideoIds :
       tpc[v] \in {"succeeded", "failed"} => status[v] \in {"ready", "error"}

\* At most w texts of each kind, and none under a negative w.
WithinWindow(c, w) ==
    /\ Len(c.before) <= Max(0, w)
    /\ Len(c.after) <= Max(0, w)
    /\ Len(c.prev) <= Max(0, w)

\* C8: with context_window = W, every translation call, of the bulk path and
\* of a point re-translation, is given at most W preceding original texts, at
\* most W following original texts and at most W preceding translated outputs.
C8_ContextWithinWindow ==
    /\ ctxBulk.done =>
          \A k \in 1..Len(ctxBulk.calls) :
             WithinWindow(ctxBulk.calls[k], ctxIn.context_window)
    /\ (ctxPoint.done /\ ctxPoint.called) =>
          WithinWindow(ctxPoint.call, ctxIn.context_window)

\* The position (1-based) of the subtitle with key id in the list f.
IndexOf(f, id) == CHOOSE k \in 1..Len(f) : f[k].id = id

\* What translate_segments, run as the task runs it on the originals of the
\* list f of persisted subtitles, may pass for the record at the place of
\* subtitle id: one call for every way the calls before it can end, the
\* outputs so far being those the loop has appended.
BulkCallAt(f, id) ==
    LET i == IndexOf(f, id)
        texts == [k \in 1..Len(f) |-> f[k].text_original]
        run(outcomes) == TranslateLoop(texts, DefaultContextWindow, TRUE, outcomes,
                                       0, <<>>, <<>>)
    IN  {JoinedContext(run(outcomes).calls[i]) :
            outcomes \in [1..Len(f) -> LLMOutcomes]}

\* Request r has just made the translation call of a point re-translation.
JustRetranslated(r) ==
    /\ http[r].op = "update" /\ http[r].pc = "next" /\ http'[r].pc = "commit"
    /\ http'[r].llm \notin {"none", "skipped"}

\* The persisted subtitles as the session of request r has them at its call:
\* the committed rows, its own row as edited.
TableAtCall(r) == {s \in rows : s.id # http[r].sub_id} \cup {http[r].obj}

\* C9: a point re-translation passes the context strings the bulk run would
\* compute for a segment at that position among the video's persisted
\* subtitles ordered by start_time.
C9_PointEqualsBulk ==
    [][\A r \in DOMAIN http :
          JustRetranslated(r) =>
             LET sub == http[r].obj
             IN  \E f \in OrderedAsc(RowsOf(TableAtCall(r), sub.video_id)) :
                    JoinedContext(http'[r].call) \in BulkCallAt(f, sub.id)]_vars

\* C10: when the translation call of a point re-translation fails, the request
\* is still answered and the stored text_translated stays as it was, or is the
\* value sent in the same request.
C10_FailedRetranslationKeepsText ==
    [][\A r \in DOMAIN http :
          (/\ http[r].op = "update" /\ http[r].pc = "commit"
           /\ http[r].llm \in {"fail", "raised"}
           /\ RowWithId(http[r].sub_id) # {}) =>
             /\ http'[r].pc = "refresh"
             /\ LET old == TheValue(RowWithId(http[r].sub_id))
                    new == CHOOSE s \in rows' : s.id = http[r].sub_id
                IN  new.text_translated =
                       IF http[r].explicit # None THEN TheValue(http[r].explicit)
                       ELSE old.text_translated]_vars

\* Where the task of a video stands while process_video is inside its try
\* block or its finally block.
InsideProcessVideo == {"extract", "vad", "whisper", "translate", "finally"}

\* C11: the temporary audio file of a run does not exist once process_video
\* has exited, by returning or by an exception of any stage: it exists only
\* while the run is between the extraction and the end of the finally block.
C11_TempAudioRemoved ==
    \A v \in VideoIds : tempAudio[v] => tpc[v] \in InsideProcessVideo \ {"extract"}

\* process_video has exited with the exception of the transcription stage,
\* raised while the temp wav existed, and the wav is gone.
C11_Witness ==
    \E v \in VideoIds :
       tpc[v] = "handler" /\ exc[v] = "TranscriptionError" /\ ~tempAudio[v]

\* C12: a video that has not reached READY (its status is UPLOADING,
\* PROCESSING, or ERROR after a failed run) owns no subtitle row, whatever
\* edit requests are sent meanwhile.
C12_NoRowsBeforeReady ==
    \A v \in VideoIds :
       status[v] \in {"uploading", "processing", "error"} => RowsOf(rows, v) = {}

\* Whether the list f is in non-decreasing order of start_time.
NonDecreasing(f) == \A i, j \in 1..Len(f) : i < j => f[i].start_time <= f[j].start_time

\* C13: after any bulk saves, creations, updates (of start_time too) and
\* deletions, the list get_video_subtitles returns for a video holds each of
\* that video's rows once, no other row, and is non-decreasing in start_time.
C13_ListingSortedAndExact ==
    \A v \in EditVideoIds :
       /\ get_video_subtitles(v) # {}
       /\ \A answer \in get_video_subtitles(v) :
             LET f == answer.subtitles
             IN  /\ answer.code = 200
                 /\ {f[k] : k \in 1..Len(f)} = RowsOf(rows, v)
                 /\ Len(f) = Cardinality(RowsOf(rows, v))
                 /\ NonDecreasing(f)

\* Video 1 has a saved row whose start_time an update has moved before that
\* of a row saved ahead of it, while the other video owns rows as well.
C13_Witness ==
    /\ \E r \in DOMAIN http : http[r].op = "update" /\ http[r].code = 200
    /\ \E s, t \in RowsOf(rows, 1) : s.id < t.id /\ t.start_time < s.start_time
    /\ RowsOf(rows, MaxEditVideos) # {}

\* The list f without the subtitle with key id.
WithoutId(f, id) == SelectSeq(f, LAMBDA s : s.id # id)

\* The commit of delete request r has just been made and answered.
JustDeleted(r) ==
    http[r].op = "delete" /\ http[r].pc = "commit" /\ http'[r].pc = "done"

\* A delete request has just arrived and selected its row.
JustAskedToDelete ==
    Len(http') = Len(http) + 1 /\ http'[Len(http')].op = "delete"

\* C14: delete_subtitle with an existing sub_id removes that row and nothing
\* else: the other subtitle rows and the video rows are as before, and the
\* listings of every video are the former listings without that row; a
\* delete whose commit the store refuses removes nothing at all; with an
\* unknown sub_id it answers not-found and changes nothing.
C14_DeleteRemovesExactlyOne ==
    [][/\ \A r \in DOMAIN http :
             JustDeleted(r) =>
                LET found == RowWithId(http[r].sub_id)
                IN  /\ status' = status /\ config' = config
                    /\ Cardinality(found) <= 1
                    /\ http'[r].code \in {204, 500}
                    /\ http'[r].code = 500 => rows' = rows /\ ~LockFree(r)
                    /\ http'[r].code = 204 =>
                          /\ rows' = rows \ found
                          /\ RowWithId(http[r].sub_id)' = {}
                          /\ \A v \in EditVideoIds :
                                get_video_subtitles(v)' =
                                   {[a EXCEPT !.subtitles = WithoutId(@, http[r].sub_id)] :
                                       a \in get_video_subtitles(v)}
       /\ JustAskedToDelete =>
             LET q == http'[Len(http')]
             IN  /\ rows' = rows /\ status' = status /\ config' = config
                 /\ IF RowWithId(q.sub_id) = {}
                    THEN q.pc = "done" /\ q.code = 404
                    ELSE q.pc = "delete"]_vars

\* A row was deleted while another row of the same video started at the same
\* time and the other video owned rows: those are all still there.
C14_Witness ==
    /\ \E r \in DOMAIN http :
          /\ http[r].op = "delete" /\ http[r].code = 204
          /\ RowWithId(http[r].sub_id) = {}
    /\ \E s, t \in RowsOf(rows, 1) : s # t /\ s.start_time = t.start_time
    /\ RowsOf(rows, MaxEditVideos) # {}

\* What the claim has generate_srt emit as the text of one subtitle.
EmittedText(subtitle, use_translated) ==
    IF use_translated /\ subtitle.text_translated \notin {None, Some(EmptyText)}
    THEN TheValue(subtitle.text_translated)
    ELSE IF subtitle.text_original = None THEN EmptyText
    ELSE TheValue(subtitle.text_original)

\* The four lines of record k, each with its line end.
RECURSIVE EmittedBlocks(_, _, _)
EmittedBlocks(subtitles, use_translated, k) ==
    IF k > Len(subtitles) THEN <<>>
    ELSE Str(k) \o <<"\n">>
         \o format_srt_time(subtitles[k].start_time) \o Arrow
         \o format_srt_time(subtitles[k].end_time) \o <<"\n">>
         \o EmittedText(subtitles[k], use_translated) \o <<"\n">>
         \o <<"\n">>
         \o EmittedBlocks(subtitles, use_translated, k + 1)

\* C15: generate_srt numbers the records 1, 2, ... in list order and emits
\* for each its text_original ("" when absent) when use_translated is false,
\* even if text_translated is populated, and when use_translated is true its
\* text_translated if present and non-empty, else its text_original.
C15_SrtTextChoice ==
    srtOut.done =>
       IF srtIn.subtitles = <<>> THEN srtOut.text = <<>>
       ELSE srtOut.text \o <<"\n">>
               = EmittedBlocks(srtIn.subtitles, srtIn.use_translated, 1)

\* Two subtitles were exported with use_translated false, the first with
\* both texts populated and the second with no original text: the output has
\* the original text of the first and an empty text line for the second.
C15_Witness ==
    /\ srtOut.done /\ ~srtIn.use_translated /\ Len(srtIn.subtitles) = 2
    /\ srtIn.subtitles[1].text_original = Some(<<"a">>)
    /\ srtIn.subtitles[1].text_translated = Some(<<"A">>)
    /\ srtIn.subtitles[1].start_time = 24
    /\ srtIn.subtitles[2].text_original = None
    /\ srtIn.subtitles[2].text_translated = Some(<<"A">>)
    /\ SubSeq(srtOut.text, 1, 34)
          = <<"1", "\n">> \o format_srt_time(24) \o Arrow \o format_srt_time(48)
               \o <<"\n", "a", "\n">>

\* The pieces of s between the occurrences of the character sep.
RECURSIVE SplitOn(_, _, _)
SplitOn(s, sep, piece) ==
    IF s = <<>> THEN <<piece>>
    ELSE IF Head(s) = sep THEN <<piece>> \o SplitOn(Tail(s), sep, <<>>)
    ELSE SplitOn(Tail(s), sep, Append(piece, Head(s)))

DigitValue(c) == CHOOSE d \in 0..9 : DigitChars[d + 1] = c

IsNumber(s) ==
    LET digits == IF s # <<>> /\ Head(s) = "-" THEN Tail(s) ELSE s
    IN  digits # <<>> /\ \A k \in 1..Len(digits) : \E d \in 0..9 : DigitChars[d + 1] = digits[k]

RECURSIVE DigitsValue(_, _)
DigitsValue(s, acc) ==
    IF s = <<>> THEN acc ELSE DigitsValue(Tail(s), 10 * acc + DigitValue(Head(s)))

ParseNumber(s) == IF Head(s) = "-" THEN -DigitsValue(Tail(s), 0) ELSE DigitsValue(s, 0)

\* The milliseconds a reader takes from H:M:S,m (signs read as written); -1
\* stands for a field that is no number.
ParseSrtTime(s) ==
    LET hms == SplitOn(s, ":", <<>>)
        sm == IF Len(hms) = 3 THEN SplitOn(hms[3], ",", <<>>) ELSE <<>>
    IN  IF Len(hms) = 3 /\ Len(sm) = 2 /\ IsNumber(hms[1]) /\ IsNumber(hms[2])
           /\ IsNumber(sm[1]) /\ IsNumber(sm[2])
        THEN [ok |-> TRUE,
              ms |-> ((ParseNumber(hms[1]) * 60 + ParseNumber(hms[2])) * 60
                        + ParseNumber(sm[1])) * 1000 + ParseNumber(sm[2])]
        ELSE [ok |-> FALSE, ms |-> 0]

\* The lines from position k on up to the first empty line, and where that is.
RECURSIVE TextLines(_, _)
TextLines(lines, k) ==
    IF k > Len(lines) \/ lines[k] = EmptyText THEN <<>>
    ELSE <<lines[k]>> \o TextLines(lines, k + 1)

\* A reader of SRT text: records of a sequence line, a timing line, the text
\* lines up to an empty line; empty lines between records are skipped.
RECURSIVE ParseRecords(_, _, _)
ParseRecords(lines, k, index) ==
    IF k > Len(lines) THEN [ok |-> TRUE, value |-> <<>>]
    ELSE IF lines[k] = EmptyText THEN ParseRecords(lines, k + 1, index)
    ELSE IF k + 1 > Len(lines) \/ lines[k] # Str(index) THEN [ok |-> FALSE, value |-> <<>>]
    ELSE LET timing == SplitOn(lines[k + 1], " ", <<>>)
             start == IF Len(timing) = 3 THEN ParseSrtTime(timing[1]) ELSE [ok |-> FALSE, ms |-> 0]
             end == IF Len(timing) = 3 THEN ParseSrtTime(timing[3]) ELSE [ok |-> FALSE, ms |-> 0]
             text == TextLines(lines, k + 2)
             rest == ParseRecords(lines, k + 2 + Len(text), index + 1)
         IN  IF Len(timing) = 3 /\ timing[2] = <<"-", "-", ">">> /\ start.ok /\ end.ok /\ rest.ok
             THEN [ok |-> TRUE,
                   value |-> <<[start |-> start.ms, end |-> end.ms, text |-> Join(text)]>>
                                \o rest.value]
             ELSE [ok |-> FALSE, value |-> <<>>]

parse_srt(content) == ParseRecords(SplitOn(content, "\n", <<>>), 1, 1)

\* Whether ms milliseconds is less than a millisecond away from the time ticks.
WithinMillisecond(ms, ticks) ==
    LET diff == ms * TicksPerSecond - ticks * 1000
    IN  diff < TicksPerSecond /\ -diff < TicksPerSecond

\* C16: parsing the text generate_srt produced back into (start, end, text)
\* triples gives the exported list again: as many triples, in the same
\* order, each with the exported text and with times less than a millisecond
\* from the subtitle's.
C16_ExportRoundTrip ==
    srtOut.done =>
       LET parsed == parse_srt(srtOut.text)
       IN  /\ parsed.ok
           /\ Len(parsed.value) = Len(srtIn.subtitles)
           /\ \A k \in 1..Len(srtIn.subtitles) :
                 /\ parsed.value[k].text = EmittedText(srtIn.subtitles[k], srtIn.use_translated)
                 /\ WithinMillisecond(parsed.value[k].start, srtIn.subtitles[k].start_time)
                 /\ WithinMillisecond(parsed.value[k].end, srtIn.subtitles[k].end_time)

\* xs[lo:hi] written out: the elements at the 0-based indices lo..hi-1.
Range(xs, lo, hi) == [j \in 1..(hi - lo) |-> xs[lo + j]]

\* What the call for a record returns when it does not raise.
OutputOf(text, outcome) ==
    IF Strip(text) = EmptyText THEN EmptyText
    ELSE IF outcome = "fail" THEN text
    ELSE Strip(LLMReply(text))

\* C17: in translate_segments with window W over N records, taken in index
\* order, the call for record i gets as context_before the original texts at
\* [max(0,i-W), i) joined oldest first, as context_after those at
\* (i, min(N,i+1+W)), and as previous_translated the outputs of records
\* max(0,i-W)..i-1 joined oldest first, the output of a record whose call
\* failed being its original text.
C17_BulkContextExact ==
    ctxBulk.done =>
       LET W == ctxIn.context_window
           N == Len(ctxIn.texts)
           outputs == [k \in 1..N |-> OutputOf(ctxIn.texts[k], ctxBulk.outcomes[k])]
       IN  /\ ~ctxBulk.raised => Len(ctxBulk.calls) = N
           /\ \A k \in 1..Len(ctxBulk.calls) :
                 LET i == k - 1
                 IN  JoinedContext(ctxBulk.calls[k]) =
                        [context_before |-> Join(Range(ctxIn.texts, Max(0, i - W), i)),
                         context_after |-> Join(Range(ctxIn.texts, i + 1, Min(N, i + 1 + W))),
                         previous_translated |-> Join(Range(outputs, Max(0, i - W), i))]
           /\ ~ctxBulk.raised =>
                 \A k \in 1..N : ctxBulk.value[k].text_translated = outputs[k]

\* Two records under window 3, the call for the first failed: the first call
\* had no text before it and the second record after it, the second call had
\* the first record before it and the first record's fallback output, its
\* original text, as the earlier translation.
C17_Witness ==
    /\ ctxBulk.done /\ ~ctxBulk.raised
    /\ ctxIn.context_window = DefaultContextWindow
    /\ ctxIn.texts = << <<"a">>, <<"b">> >>
    /\ ctxBulk.outcomes = <<"fail", "ok">>
    /\ ctxBulk.calls[1] = [before |-> <<>>, after |-> << <<"b">> >>, prev |-> <<>>]
    /\ ctxBulk.calls[2] = [before |-> << <<"a">> >>, after |-> <<>>, prev |-> << <<"a">> >>]

\* The translation step of the run of video v has just ended.
JustTranslated(v) == tpc[v] = "translate" /\ tpc'[v] = "finally"

\* The context strings of the prompts translate_segments has the LLM sent
\* under window w: one entry per record, the record's text with the joined
\* contexts, and no entry where the text is blank and no prompt is made.
PromptsUnder(segments, w, outcomes) ==
    LET calls == translate_segments(segments, w, TRUE, outcomes).calls
    IN  [k \in {j \in 1..Len(calls) : Strip(segments[j].text_original) # EmptyText} |->
            JoinedContext(calls[k])]

\* C18: the bulk run of a video translates with the rolling window W stored
\* for the video at upload, the one point re-translation reads later: the
\* prompts of the run carry the contexts translate_segments forms under the
\* stored window.
C18_RunUsesStoredConfig ==
    [][\A v \in VideoIds :
          (JustTranslated(v) /\ keyOk) =>
             \A outcomes \in [1..Len(segs[v]) -> LLMOutcomes] :
                PromptsUnder(segs[v], RunContextWindow(v), outcomes)
                   = PromptsUnder(segs[v], config[v].context_window, outcomes)]_vars

\* The stages of process_video in the order of its try block, and what each
\* raises when it fails.
Stages == <<"extract", "vad", "whisper", "translate">>

StageException ==
    [extract |-> "RuntimeError", vad |-> "SegmentationError",
     whisper |-> "TranscriptionError", translate |-> "ValueError"]

StageIndex(stage) == CHOOSE k \in 1..Len(Stages) : Stages[k] = stage

\* C19: in one run of process_video the stages run in the order
\* extract_audio, get_vad_segments, transcribe_with_whisper,
\* translate_segments, each after the one before it has returned; when a
\* stage raises no later stage runs, the exception that leaves process_video
\* is the one the stage raised, and no step of the run writes to the store.
C19_StagesInOrder ==
    [][\A v \in VideoIds :
          (tpc[v] \in InsideProcessVideo /\ tpc'[v] # tpc[v]) =>
             /\ rows' = rows /\ status' = status
             /\ IF tpc[v] = "finally"
                THEN /\ exc'[v] = exc[v]
                     /\ tpc'[v] = IF exc[v] = "none" THEN "save" ELSE "handler"
                ELSE LET k == StageIndex(tpc[v])
                     IN  /\ exc[v] = "none"
                         /\ \/ /\ exc'[v] = "none"
                               /\ tpc'[v] = IF k < Len(Stages) THEN Stages[k + 1] ELSE "finally"
                            \/ /\ exc'[v] = StageException[tpc[v]]
                               /\ tpc'[v] = "finally"]_vars

\* The segmentation stage raised after the extraction had returned: its
\* exception has left process_video, no later stage ran and the store holds
\* nothing of the run.
C19_Witness ==
    \E v \in VideoIds :
       /\ tpc[v] = "handler" /\ exc[v] = "SegmentationError"
       /\ segs[v] = <<>> /\ rows = {} /\ status[v] = "processing"

\* C20: when the source file is missing at the start of a run, process_video
\* raises the missing-media error before any stage runs and before a temp wav
\* exists, and the attempt ends with status ERROR and no subtitle row added.
C20_MissingFileEndsInError ==
    [][\A v \in VideoIds :
          /\ (tpc[v] = "check" /\ exc'[v] = "FileNotFoundError") =>
                tpc'[v] = "handler" /\ ~tempAudio'[v] /\ rows' = rows
          /\ (tpc[v] = "handler" /\ exc[v] = "FileNotFoundError" /\ tpc'[v] = "failed") =>
                status'[v] = "error" /\ rows' = rows]_vars

\* The save of the attempt of video v has just committed.
JustSaved(v) == tpc[v] = "save" /\ tpc'[v] = "succeeded"

\* C21: a run of the task that follows an earlier attempt of the same video
\* starts the pipeline again from its first step, and its save inserts a fresh
\* row for every segment whatever rows the earlier attempts have left: the
\* rows already in the table stay, one new row per segment is added with a
\* new key, and so a video whose earlier attempt had persisted rows holds the
\* rows of both attempts afterwards.
C21_RerunInsertsAgain ==
    [][\A v \in VideoIds :
          /\ attempts'[v] > attempts[v] =>
                tpc'[v] = "check" /\ vadSegs'[v] = <<>> /\ rows' = rows
          /\ (attempts[v] >= 2 /\ JustSaved(v)) =>
                /\ rows \subseteq rows'
                /\ Cardinality(rows' \ rows) = Len(segs[v])
                /\ \A k \in 1..Len(segs[v]) :
                      \E s \in rows' \ rows :
                         /\ s.video_id = v
                         /\ s.id \notin {t.id : t \in rows}
                         /\ s.start_time = segs[v][k].start
                         /\ s.text_original = segs[v][k].text_original
                /\ Cardinality(RowsOf(rows', v)) = Cardinality(RowsOf(rows, v)) + Len(segs[v])]_vars

\* The second attempt of a video has saved after the first had saved the
\* same segments: the video holds two rows that differ in their key only.
C21_Witness ==
    \E v \in VideoIds :
       /\ attempts[v] = 2 /\ tpc[v] = "succeeded" /\ status[v] = "ready"
       /\ \E s, t \in RowsOf(rows, v) :
             s.id # t.id /\ [s EXCEPT !.id = t.id] = t

\* A task message for video v is, or has been, in the broker.
Enqueued(v) == v \in queue \/ attempts[v] > 0

\* C22: a task message for a video exists only once upload_video has
\* committed PROCESSING and handed it over, so that no attempt sees its video
\* UPLOADING; and no video is left PROCESSING by a finished upload request
\* without a task having been enqueued for it.
C22_EnqueueAfterProcessing ==
    \A v \in VideoIds :
       /\ Enqueued(v) => upPc[v] = "done" /\ status[v] \notin {"none", "uploading"}
       /\ (upPc[v] \in {"done", "failed"} /\ status[v] = "processing") => Enqueued(v)

\* A subtitle row without its key.
StripId(s) == [f \in DOMAIN s \ {"id"} |-> s[f]]

\* C23: runs of different videos side by side do not interfere: a step of
\* the run of one video leaves the status, the subtitle rows, the temporary
\* audio and the run of every other video as they are, and a run that saves
\* gives its video the rows it would have given it alone, whatever the other
\* runs have saved meanwhile.
C23_RunsDoNotInterfere ==
    [][\A v \in RunVideoIds :
          tpc'[v] # tpc[v] =>
             /\ \A u \in RunVideoIds \ {v} :
                   /\ status'[u] = status[u]
                   /\ RowsOf(rows', u) = RowsOf(rows, u)
                   /\ tempAudio'[u] = tempAudio[u]
                   /\ tpc'[u] = tpc[u] /\ exc'[u] = exc[u]
                   /\ vadSegs'[u] = vadSegs[u] /\ segs'[u] = segs[u]
             /\ JustSaved(v) =>
                   /\ status'[v] = "ready"
                   /\ Cardinality(RowsOf(rows', v)) = Len(segs[v])
                   /\ {StripId(s) : s \in RowsOf(rows', v)}
                         = {StripId(s) : s \in NewSubtitles({}, v, segs[v])}]_vars

\* Both runs have saved two rows each, the run of video 2 first and the run
\* of video 1 second.
C23_Witness ==
    /\ tpc[1] = "succeeded" /\ tpc[2] = "succeeded"
    /\ Cardinality(RowsOf(rows, 1)) = 2 /\ Cardinality(RowsOf(rows, 2)) = 2
    /\ \A s \in RowsOf(rows, 2), t \in RowsOf(rows, 1) : s.id < t.id

\* C24: the bulk save is all or nothing for every attempt: the step of
\* _save_subtitles_and_complete adds either no row or one row of its video
\* for every segment, it adds them all exactly when it sets the status to
\* READY, and an attempt whose save fails, or finds no video row, leaves the
\* table and the status as they were; no other step of the task adds a row.
C24_SaveAllOrNothing ==
    [][\A v \in VideoIds :
          /\ (tpc[v] = "save" /\ tpc'[v] # "save") =>
                /\ rows \subseteq rows'
                /\ rows' \ rows \subseteq RowsOf(rows', v)
                /\ Cardinality(rows' \ rows) \in {0, Len(segs[v])}
                /\ JustSaved(v) <=> (status'[v] = "ready")
                /\ JustSaved(v) => Cardinality(rows' \ rows) = Len(segs[v])
                /\ ~JustSaved(v) =>
                      /\ tpc'[v] = "handler" /\ exc'[v] \in {"SaveError", "ValueError"}
                      /\ rows' = rows /\ status' = status
          /\ (tpc[v] # "save" /\ tpc'[v] # tpc[v]) => rows' = rows]_vars

\* The save of an attempt with two segments has failed: the exception is on
\* its way to the handler, the video is still PROCESSING and has no row.
C24_Witness ==
    \E v \in VideoIds :
       /\ tpc[v] = "handler" /\ exc[v] = "SaveError"
       /\ Len(vadSegs[v]) = 2 /\ status[v] = "processing"
       /\ RowsOf(rows, v) = {}

\* C25: a bulk run only inserts rows: whatever creations, updates, point
\* re-translations and deletions of subtitles of the same video come before
\* or after its steps, a step of the run keeps every subtitle row the table
\* holds as it is, changes of the video rows nothing but the status of its
\* own video, and leaves every edit request, the row it holds and the changes
\* it has not committed yet included, where it is.
C25_BulkRunOnlyInserts ==
    [][\A v \in EditVideoIds :
          tpc'[v] # tpc[v] =>
             /\ rows \subseteq rows'
             /\ \A s \in rows' \ rows : s.video_id = v /\ s.id > MaxId(rows)
             /\ config' = config
             /\ \A u \in EditVideoIds \ {v} : status'[u] = status[u]
             /\ http' = http /\ opsLeft' = opsLeft]_vars

\* The save of a run landed in the middle of an update of a subtitle of the
\* same video: the request had made its query for the preceding subtitles
\* before the save and is about to make the one for the following subtitles
\* after it, with the two rows of the run in the table and its own row as it
\* loaded it.
C25_Witness ==
    /\ tpc[MaxEditVideos] = "succeeded" /\ status[MaxEditVideos] = "ready"
    /\ \E r \in DOMAIN http :
          /\ http[r].op = "update" /\ http[r].pc = "next"
          /\ http[r].obj.video_id = MaxEditVideos
          /\ http[r].prev_subs = <<>>
          /\ http[r].obj \in rows
          /\ Cardinality({t \in RowsOf(rows, MaxEditVideos) :
                              /\ t.confidence = BulkConfidence
                              /\ t.id > http[r].sub_id}) = 2

====
